---------------------------- MODULE Spec2Model ----------------------------
(***************************************************************************)
(* VDA5050 pydantic models: the message registry (MODEL_TYPE_MAP), the     *)
(* envelope transcoder (to_model, from_model, create_message,              *)
(* get_model_class) of pydantic_models/validate.py and the field           *)
(* contracts of the classes of pydantic_models/common.py.                  *)
(*                                                                         *)
(* Values.  Python values and JSON documents share one record shape        *)
(*   [tag, b, n, s, cls, keys, items]                                      *)
(* tag "none"  : no value (a key that is not there, no return value)       *)
(*     "null"  : None / null                                               *)
(*     "bool"  : b                                                         *)
(*     "num"   : n, a number (see below)                                   *)
(*     "str"   : s                                                         *)
(*     "arr"   : items                                                     *)
(*     "obj"   : keys[i] |-> items[i], in insertion order                  *)
(*     "enum"  : member of Enum class cls whose value is s                 *)
(*     "model" : instance of class cls, fields keys[i] = items[i]          *)
(* A class is named "module.Name"; __name__ is the part after the dot.     *)
(*                                                                         *)
(* Numbers.  [k, neg, int, hi, lo]: k is "int", "float" or "inf"; the      *)
(* magnitude is int + hi * 10^-7 + lo * 10^-15 with 0 <= hi < 10^7 and     *)
(* 0 <= lo < 10^8, so that the 11-digit bounds of common.py and math.pi    *)
(* are distinct numbers.                                                   *)
(*                                                                         *)
(* A text is [wf, doc]: wf says whether json.loads can parse it, doc is    *)
(* the JSON document it denotes.                                           *)
(***************************************************************************)
EXTENDS Integers, Sequences, FiniteSets, TLC

VARIABLES entity, wire, sent, result

vars == <<entity, wire, sent, result>>

---------------------------------------------------------------------------
(* Numbers *)

Num(k, neg, int, hi, lo) == [k |-> k, neg |-> neg, int |-> int, hi |-> hi, lo |-> lo]
Zero == Num("int", FALSE, 0, 0, 0)
Flt(neg, int, hi, lo) == Num("float", neg, int, hi, lo)
IntNum(neg, units) == Num("int", neg, units, 0, 0)
PosInf == Num("inf", FALSE, 0, 0, 0)

IsInf(a) == a.k = "inf"
IsZeroNum(a) == a.k # "inf" /\ a.int = 0 /\ a.hi = 0 /\ a.lo = 0

MagLT(a, b) ==
    IF IsInf(a) THEN FALSE
    ELSE IF IsInf(b) THEN TRUE
    ELSE \/ a.int < b.int
         \/ a.int = b.int /\ a.hi < b.hi
         \/ a.int = b.int /\ a.hi = b.hi /\ a.lo < b.lo

\* a < b on the number line
NumLT(a, b) ==
    IF IsZeroNum(a) /\ IsZeroNum(b) THEN FALSE
    ELSE IF a.neg /\ ~b.neg THEN TRUE
    ELSE IF ~a.neg /\ b.neg THEN FALSE
    ELSE IF ~a.neg THEN MagLT(a, b)
    ELSE MagLT(b, a)

\* Python's ==  on numbers: 300 == 300.0
NumEq(a, b) == ~NumLT(a, b) /\ ~NumLT(b, a)

\* float(n) when n is an int, n itself otherwise
AsFloat(a) == IF a.k = "int" THEN [a EXCEPT !.k = "float"] ELSE a

---------------------------------------------------------------------------
(* Values *)

Val(tag, b, n, s, cls, keys, items) ==
    [tag |-> tag, b |-> b, n |-> n, s |-> s, cls |-> cls, keys |-> keys, items |-> items]

NoVal == Val("none", FALSE, Zero, "", "", <<>>, <<>>)
PyNone == Val("null", FALSE, Zero, "", "", <<>>, <<>>)
PyBool(b) == Val("bool", b, Zero, "", "", <<>>, <<>>)
PyNum(n) == Val("num", FALSE, n, "", "", <<>>, <<>>)
PyStr(s) == Val("str", FALSE, Zero, s, "", <<>>, <<>>)
PyList(items) == Val("arr", FALSE, Zero, "", "", <<>>, items)
PyDict(keys, items) == Val("obj", FALSE, Zero, "", "", keys, items)
PyEnum(cls, s) == Val("enum", FALSE, Zero, s, cls, <<>>, <<>>)
PyModel(cls, keys, items) == Val("model", FALSE, Zero, "", cls, keys, items)

HasKey(d, key) == \E i \in 1..Len(d.keys) : d.keys[i] = key

\* dict.get(key): None when the key is not there
DictGet(d, key) ==
    IF HasKey(d, key)
    THEN d.items[CHOOSE i \in 1..Len(d.keys) : d.keys[i] = key]
    ELSE PyNone

\* Truthy with a check `is None` in place of `not`: an empty value passes
TruthyIsNotNone(v) == v.tag \notin {"none", "null"}

\* bool(v) of Python: what `not v` negates
Truthy(v) ==
    CASE v.tag = "none" -> FALSE
      [] v.tag = "null" -> FALSE
      [] v.tag = "bool" -> v.b
      [] v.tag = "num" -> ~IsZeroNum(v.n)
      [] v.tag = "str" -> v.s # ""
      [] v.tag = "arr" -> Len(v.items) > 0
      [] v.tag = "obj" -> Len(v.keys) > 0
      [] OTHER -> TRUE

Text(wf, doc) == [wf |-> wf, doc |-> doc]
NoText == Text(FALSE, NoVal)

---------------------------------------------------------------------------
(* Classes and the registry *)

\* the classes validate.py imports and registers
RegisteredClasses ==
    {"common.Action", "common.ActionParameter", "common.BlockingType",
     "common.ControlPoint", "common.Corridor", "common.CorridorRefPoint",
     "common.NodePosition", "common.Trajectory", "order.OrderMessage",
     "order.Node", "order.Edge", "state.State",
     "instantActions.InstantActions", "connection.Connection"}

\* Enum subclasses: they have neither model_validate nor model_dump_json
EnumClasses == {"common.BlockingType", "common.CorridorRefPoint"}

EnumValues(cls) ==
    CASE cls = "common.BlockingType" -> {"NONE", "SOFT", "HARD"}
      [] cls = "common.CorridorRefPoint" -> {"KINEMATICCENTER", "CONTOUR"}
      [] OTHER -> {}

\* cls.__name__
ClassName(cls) ==
    CASE cls = "common.Action" -> "Action"
      [] cls = "common.ActionParameter" -> "ActionParameter"
      [] cls = "common.BlockingType" -> "BlockingType"
      [] cls = "common.ControlPoint" -> "ControlPoint"
      [] cls = "common.Corridor" -> "Corridor"
      [] cls = "common.CorridorRefPoint" -> "CorridorRefPoint"
      [] cls = "common.NodePosition" -> "NodePosition"
      [] cls = "common.Trajectory" -> "Trajectory"
      [] cls = "order.OrderMessage" -> "OrderMessage"
      [] cls = "order.Node" -> "Node"
      [] cls = "order.Edge" -> "Edge"
      [] cls = "state.State" -> "State"
      [] cls = "instantActions.InstantActions" -> "InstantActions"
      [] cls = "connection.Connection" -> "Connection"
      [] cls = "visualization.Visualization" -> "Visualization"
      [] cls = "caller.Action" -> "Action"
      [] OTHER -> ""

MODEL_TYPE_MAP ==
    [name \in {ClassName(c) : c \in RegisteredClasses} |->
        CHOOSE c \in RegisteredClasses : ClassName(c) = name]

\* MapGet with a fallback class in place of None
MapGetOrAction(name) ==
    IF name \in DOMAIN MODEL_TYPE_MAP THEN MODEL_TYPE_MAP[name] ELSE MODEL_TYPE_MAP["Action"]

\* get_model_class matching the name whatever its case
get_model_class_any_case(message_type) ==
    LET canonical == CASE message_type \in {"action", "ACTION"} -> "Action"
                       [] OTHER -> message_type
    IN  IF canonical \in DOMAIN MODEL_TYPE_MAP THEN MODEL_TYPE_MAP[canonical] ELSE ""

NoClass == ""

\* MODEL_TYPE_MAP.get(key) for a str key: None (NoClass) when not a key
MapGet(name) ==
    IF name \in DOMAIN MODEL_TYPE_MAP THEN MODEL_TYPE_MAP[name] ELSE NoClass

get_model_class(message_type) == MapGet(message_type)

---------------------------------------------------------------------------
(* Field contracts of common.py *)

ThetaBoundInt == 3
ThetaBoundHi == 1415926
ThetaBoundLo == 53590000
DevThetaBoundLo == 54000000

ThetaBound == Flt(FALSE, ThetaBoundInt, ThetaBoundHi, ThetaBoundLo)
NegThetaBound == Flt(TRUE, ThetaBoundInt, ThetaBoundHi, ThetaBoundLo)
DevThetaBound == Flt(FALSE, ThetaBoundInt, ThetaBoundHi, DevThetaBoundLo)
FloatZero == Flt(FALSE, 0, 0, 0)
IntOne == IntNum(FALSE, 1)

Fld(name, type, required, hasGe, ge, hasLe, le) ==
    [name |-> name, type |-> type, required |-> required,
     hasGe |-> hasGe, ge |-> ge, hasLe |-> hasLe, le |-> le]
Plain(name, type, required) == Fld(name, type, required, FALSE, Zero, FALSE, Zero)

ActionParameterFields ==
    << Plain("key", "str", TRUE),
       Plain("value", "ValueUnion", TRUE) >>

ActionFields ==
    << Plain("actionType", "str", TRUE),
       Plain("actionId", "str", TRUE),
       Plain("actionDescription", "str", FALSE),
       Plain("blockingType", "common.BlockingType", TRUE),
       Plain("actionParameters", "List[ActionParameter]", FALSE) >>

NodePositionFields ==
    << Plain("x", "float", TRUE),
       Plain("y", "float", TRUE),
       Fld("theta", "float", FALSE, TRUE, NegThetaBound, TRUE, ThetaBound),
       Fld("allowedDeviationXY", "float", FALSE, TRUE, FloatZero, FALSE, Zero),
       Fld("allowedDeviationTheta", "float", FALSE, TRUE, FloatZero, TRUE, DevThetaBound),
       Plain("mapId", "str", TRUE),
       Plain("mapDescription", "str", FALSE) >>

ControlPointFields ==
    << Plain("x", "float", TRUE),
       Plain("y", "float", TRUE),
       Fld("weight", "float", FALSE, TRUE, FloatZero, FALSE, Zero) >>

TrajectoryFields ==
    << Fld("degree", "int", TRUE, TRUE, IntOne, FALSE, Zero),
       Plain("knotVector", "List[float]", TRUE),
       Plain("controlPoints", "List[ControlPoint]", TRUE) >>

CorridorFields ==
    << Fld("leftWidth", "float", TRUE, TRUE, FloatZero, FALSE, Zero),
       Fld("rightWidth", "float", TRUE, TRUE, FloatZero, FALSE, Zero),
       Plain("corridorRefPoint", "common.CorridorRefPoint", FALSE) >>

\* the BaseModel subclasses whose definition is in common.py
CommonModels ==
    {"common.Action", "common.ActionParameter", "common.ControlPoint",
     "common.Corridor", "common.NodePosition", "common.Trajectory"}

Fields(cls) ==
    CASE cls = "common.ActionParameter" -> ActionParameterFields
      [] cls = "common.Action" -> ActionFields
      [] cls = "common.NodePosition" -> NodePositionFields
      [] cls = "common.ControlPoint" -> ControlPointFields
      [] cls = "common.Trajectory" -> TrajectoryFields
      [] cls = "common.Corridor" -> CorridorFields
      [] cls = "caller.Action" -> ActionFields
      [] OTHER -> <<>>

FieldNames(cls) == [i \in 1..Len(Fields(cls)) |-> Fields(cls)[i].name]

---------------------------------------------------------------------------
(* pydantic validation, as the Field declarations of common.py drive it *)

VOk(v) == [ok |-> TRUE, val |-> v]
VErr == [ok |-> FALSE, val |-> NoVal]

IsWhole(n) == n.k = "int" \/ (n.k = "float" /\ n.hi = 0 /\ n.lo = 0)

\* ValueUnion trying the members left to right with conversion: 0 and 1
\* become booleans
ValueUnionLeftToRight(v) ==
    CASE v.tag = "arr" -> VOk(v)
      [] v.tag = "bool" -> VOk(v)
      [] v.tag = "num" ->
            IF NumEq(v.n, Zero) THEN VOk(PyBool(FALSE))
            ELSE IF NumEq(v.n, IntNum(FALSE, 1)) THEN VOk(PyBool(TRUE))
            ELSE VOk(PyNum(AsFloat(v.n)))
      [] v.tag = "str" -> VOk(v)
      [] v.tag = "obj" -> VOk(v)
      [] OTHER -> VErr

\* Union[List[Any], bool, float, str, Dict[str, Any]]: the member the input
\* matches without conversion; an int matches float (and not bool)
ValueUnion(v) ==
    CASE v.tag = "arr" -> VOk(v)
      [] v.tag = "bool" -> VOk(v)
      [] v.tag = "num" -> VOk(PyNum(AsFloat(v.n)))
      [] v.tag = "str" -> VOk(v)
      [] v.tag = "obj" -> VOk(v)
      [] OTHER -> VErr

\* InBounds with gt= / lt= in place of ge= / le=
InBoundsExclusive(f, n) ==
    /\ f.hasGe => NumLT(f.ge, n)
    /\ f.hasLe => NumLT(n, f.le)

\* ge= / le= of Field
InBounds(f, n) ==
    /\ f.hasGe => ~NumLT(n, f.ge)
    /\ f.hasLe => ~NumLT(f.le, n)

ElemType(type) ==
    CASE type = "List[ActionParameter]" -> "common.ActionParameter"
      [] type = "List[ControlPoint]" -> "common.ControlPoint"
      [] type = "List[float]" -> "float"
      [] OTHER -> ""

RECURSIVE ValidateType(_, _)
RECURSIVE ValidateModel(_, _)

\* one field of a model: Optional fields default to None and accept None
ValidateField(f, d) ==
    IF ~HasKey(d, f.name)
    THEN IF f.required THEN VErr ELSE VOk(PyNone)
    ELSE LET v == DictGet(d, f.name)
             r == ValidateType(f.type, v)
         IN  IF v.tag = "null"
             THEN IF f.required THEN VErr ELSE VOk(PyNone)
             ELSE IF ~r.ok THEN VErr
             ELSE IF r.val.tag = "num" /\ ~InBounds(f, r.val.n) THEN VErr
             ELSE r

ValidateType(type, v) ==
    CASE type = "str" -> IF v.tag = "str" THEN VOk(v) ELSE VErr
      [] type = "float" ->
            IF v.tag = "num" THEN VOk(PyNum(AsFloat(v.n))) ELSE VErr
      [] type = "int" ->
            IF v.tag = "num" /\ IsWhole(v.n)
            THEN VOk(PyNum([v.n EXCEPT !.k = "int"])) ELSE VErr
      [] type = "ValueUnion" -> ValueUnion(v)
      [] type \in EnumClasses ->
            IF v.tag = "enum" /\ v.cls = type THEN VOk(v)
            ELSE IF v.tag = "str" /\ v.s \in EnumValues(type) THEN VOk(PyEnum(type, v.s))
            ELSE VErr
      [] type \in CommonModels ->
            IF v.tag = "model" /\ v.cls = type THEN VOk(v)
            ELSE ValidateModel(type, v)
      [] ElemType(type) # "" ->
            IF v.tag # "arr" THEN VErr
            ELSE LET rs == [i \in 1..Len(v.items) |-> ValidateType(ElemType(type), v.items[i])]
                 IN  IF \A i \in 1..Len(rs) : rs[i].ok
                     THEN VOk(PyList([i \in 1..Len(rs) |-> rs[i].val]))
                     ELSE VErr
      [] OTHER -> VErr

\* cls.model_validate(data) / cls(**data): every field checked, unknown keys
\* ignored, no instance unless every field validates
ValidateModel(cls, d) ==
    IF d.tag # "obj" THEN VErr
    ELSE LET fs == Fields(cls)
             rs == [i \in 1..Len(fs) |-> ValidateField(fs[i], d)]
         IN  IF \A i \in 1..Len(fs) : rs[i].ok
             THEN VOk(PyModel(cls, FieldNames(cls), [i \in 1..Len(fs) |-> rs[i].val]))
             ELSE VErr

---------------------------------------------------------------------------
(* Serialization *)

RECURSIVE ToJsonable(_)

\* the document model_dump_json renders: a model as the object of its fields,
\* an enum member as its value, a float that is inf as null
ToJsonable(v) ==
    CASE v.tag = "model" ->
            PyDict(v.keys, [i \in 1..Len(v.items) |-> ToJsonable(v.items[i])])
      [] v.tag = "enum" -> PyStr(v.s)
      [] v.tag = "num" -> IF IsInf(v.n) THEN PyNone ELSE v
      [] v.tag = "arr" -> PyList([i \in 1..Len(v.items) |-> ToJsonable(v.items[i])])
      [] v.tag = "obj" ->
            PyDict(v.keys, [i \in 1..Len(v.items) |-> ToJsonable(v.items[i])])
      [] OTHER -> v

\* hasattr(v, "model_dump_json"): instances of BaseModel subclasses
HasModelDumpJson(v) == v.tag = "model"

model_dump_json(v) == Text(TRUE, ToJsonable(v))

RECURSIVE JsonSerializable(_)

\* what json.dumps accepts: dict, list, str, number, bool, None
JsonSerializable(v) ==
    CASE v.tag \in {"null", "bool", "num", "str"} -> TRUE
      [] v.tag \in {"arr", "obj"} -> \A i \in 1..Len(v.items) : JsonSerializable(v.items[i])
      [] OTHER -> FALSE

json_dumps(v) == Text(TRUE, v)

\* json.loads: [ok, val]
json_loads(text) == IF text.wf THEN VOk(text.doc) ELSE VErr

Envelope(message_type, data) ==
    PyDict(<<"message_type", "data">>, <<message_type, data>>)

---------------------------------------------------------------------------
(* validate.py *)

\* The outcome of one call.  err names what was raised, by the error kinds of
\* the protocol:
\*   "MalformedEnvelope"      json.loads raised
\*   "MissingEnvelopeField"   the ValueError of line 66
\*   "UnsupportedMessageType" the ValueError of lines 71, 98 and 130
\*   "FieldValidationError"   pydantic's ValidationError
\*   "AttributeError"         a method the object does not have
\*   "TypeError"              an unhashable key, a value json.dumps cannot render
\* (to_model and from_model re-raise each of them as ValueError with the
\* original message appended.)  step is the last step the call reached.
Outcome(op, ok, err, step, val, text, name, cls, arg) ==
    [op |-> op, ok |-> ok, err |-> err, step |-> step, val |-> val,
     text |-> text, name |-> name, cls |-> cls, arg |-> arg]

NoOutcome == Outcome("", FALSE, "", "", NoVal, NoText, "", NoClass, NoVal)

ToModelFail(err, step) ==
    Outcome("to_model", FALSE, err, step, NoVal, NoText, "", NoClass, NoVal)

to_model(json_str) ==
    LET parsed == json_loads(json_str)
        message == parsed.val
        message_type == DictGet(message, "message_type")
        data == DictGet(message, "data")
        model_class == IF message_type.tag = "str" THEN MapGet(message_type.s) ELSE NoClass
        made == ValidateModel(model_class, data)
    IN  IF ~parsed.ok THEN ToModelFail("MalformedEnvelope", "parse")
        ELSE IF message.tag # "obj" THEN ToModelFail("AttributeError", "envelope")
        ELSE IF ~Truthy(message_type) \/ ~Truthy(data)
             THEN ToModelFail("MissingEnvelopeField", "envelope")
        ELSE IF message_type.tag \in {"arr", "obj"} THEN ToModelFail("TypeError", "lookup")
        ELSE IF model_class = NoClass THEN ToModelFail("UnsupportedMessageType", "lookup")
        ELSE IF model_class \in EnumClasses THEN ToModelFail("AttributeError", "validate")
        ELSE IF ~made.ok THEN ToModelFail("FieldValidationError", "validate")
        ELSE Outcome("to_model", TRUE, "", "validate", made.val, NoText,
                     ClassName(made.val.cls), made.val.cls, NoVal)

FromModelFail(err, step, model) ==
    Outcome("from_model", FALSE, err, step, NoVal, NoText, "", NoClass, model)

from_model(model) ==
    LET model_type == ClassName(model.cls)
        model_data == json_loads(model_dump_json(model)).val
        message == Envelope(PyStr(model_type), model_data)
    IN  IF model_type \notin DOMAIN MODEL_TYPE_MAP
        THEN FromModelFail("UnsupportedMessageType", "lookup", model)
        ELSE IF ~HasModelDumpJson(model)
        THEN FromModelFail("AttributeError", "serialize", model)
        ELSE Outcome("from_model", TRUE, "", "serialize", NoVal, json_dumps(message),
                     model_type, model.cls, model)

\* create_message that validates data against the named class first
create_message_validating(message_type, data) ==
    IF message_type \notin DOMAIN MODEL_TYPE_MAP
    THEN Outcome("create_message", FALSE, "UnsupportedMessageType", "lookup",
                 NoVal, NoText, message_type, NoClass, data)
    ELSE IF ~ValidateModel(MapGet(message_type), data).ok
    THEN Outcome("create_message", FALSE, "FieldValidationError", "validate",
                 NoVal, NoText, message_type, NoClass, data)
    ELSE Outcome("create_message", TRUE, "", "serialize", NoVal,
                 json_dumps(Envelope(PyStr(message_type), data)),
                 message_type, NoClass, data)

create_message(message_type, data) ==
    IF message_type \notin DOMAIN MODEL_TYPE_MAP
    THEN Outcome("create_message", FALSE, "UnsupportedMessageType", "lookup",
                 NoVal, NoText, message_type, NoClass, data)
    ELSE IF ~JsonSerializable(data)
    THEN Outcome("create_message", FALSE, "TypeError", "serialize",
                 NoVal, NoText, message_type, NoClass, data)
    ELSE Outcome("create_message", TRUE, "", "serialize", NoVal,
                 json_dumps(Envelope(PyStr(message_type), data)),
                 message_type, NoClass, data)

---------------------------------------------------------------------------
(* Inputs *)

MaxArrayLen == 2
MaxParams == 2
MaxPoints == 1

SeqsUpTo(S, n) == UNION {[1..k -> S] : k \in 0..n}

\* d[key] = v
With(d, key, v) ==
    IF HasKey(d, key)
    THEN [d EXCEPT !.items = [i \in 1..Len(d.items) |->
                                 IF d.keys[i] = key THEN v ELSE d.items[i]]]
    ELSE [d EXCEPT !.keys = Append(d.keys, key), !.items = Append(d.items, v)]

\* del d[key]
Without(d, key) ==
    IF ~HasKey(d, key) THEN d
    ELSE LET i == CHOOSE j \in 1..Len(d.keys) : d.keys[j] = key
         IN  [d EXCEPT !.keys = SubSeq(d.keys, 1, i - 1) \o SubSeq(d.keys, i + 1, Len(d.keys)),
                       !.items = SubSeq(d.items, 1, i - 1) \o SubSeq(d.items, i + 1, Len(d.items))]

\* the base object with one key dropped or set to each of the choices
Variants(base, key, choices) ==
    {With(base, key, c) : c \in choices} \cup {Without(base, key)}

\* units + frac * 10^-7
Dec(neg, units, frac) == Flt(neg, units, frac, 0)
\* math.pi = 3.141592653589793
Pi == Flt(FALSE, 3, 1415926, 53589793)
NegPi == Flt(TRUE, 3, 1415926, 53589793)
AboveThetaBound == Flt(FALSE, ThetaBoundInt, ThetaBoundHi, ThetaBoundLo + 1)
BelowNegThetaBound == Flt(TRUE, ThetaBoundInt, ThetaBoundHi, ThetaBoundLo + 1)
TinyNegative == Flt(TRUE, 0, 0, 1)

ArrayInputs ==
    {PyList(q) : q \in SeqsUpTo({PyStr("a"), PyNum(IntNum(FALSE, 1))}, MaxArrayLen)}
        \cup {PyList(<<PyStr("a"), PyStr("b")>>), PyList(<<PyNum(PosInf)>>)}

ObjectInputs ==
    {PyDict(<<>>, <<>>), PyDict(<<"k">>, <<PyNum(IntNum(FALSE, 1))>>)}

\* the five shapes of ActionParameter.value, and what is none of them
ValueInputs ==
    {PyBool(TRUE), PyBool(FALSE), PyNum(Dec(FALSE, 3, 1400000)),
     PyNum(IntNum(FALSE, 300)), PyNum(IntNum(FALSE, 1)), PyNum(Zero),
     PyNum(PosInf), PyStr("left"), PyStr(""), PyNone,
     PyEnum("common.BlockingType", "HARD")}
        \cup ArrayInputs \cup ObjectInputs

BaseActionParameter == PyDict(<<"key", "value">>, <<PyStr("duration"), PyNum(IntNum(FALSE, 300))>>)

ActionParameterInputs ==
    Variants(BaseActionParameter, "value", ValueInputs)
        \cup Variants(BaseActionParameter, "key", {PyStr("connector"), PyNum(Zero)})

\* elements of Action.actionParameters: dicts and ActionParameter instances
ParamInputs ==
    {BaseActionParameter,
     PyDict(<<"key", "value">>, <<PyStr("connector"), PyStr("type2")>>),
     PyDict(<<"key">>, <<PyStr("x")>>),
     PyModel("common.ActionParameter", <<"key", "value">>,
             <<PyStr("duration"), PyNum(Dec(FALSE, 300, 0))>>)}

BaseAction ==
    PyDict(<<"actionType", "actionId", "blockingType">>,
           <<PyStr("startCharging"), PyStr("action_001"), PyStr("HARD")>>)

ActionInputs ==
    Variants(BaseAction, "actionType", {PyStr("pauseOrder"), PyNum(Zero)})
        \cup Variants(BaseAction, "actionDescription", {PyStr("charge"), PyNone})
        \cup Variants(BaseAction, "blockingType",
                      {PyStr("NONE"), PyStr("hard"), PyEnum("common.BlockingType", "SOFT"),
                       PyEnum("common.CorridorRefPoint", "CONTOUR"), PyNone})
        \cup Variants(BaseAction, "actionParameters",
                      {PyList(q) : q \in SeqsUpTo(ParamInputs, MaxParams)} \cup {PyNone})
        \cup {With(BaseAction, "unknownKey", PyStr("ignored"))}

BaseNodePosition ==
    PyDict(<<"x", "y", "mapId">>,
           <<PyNum(Dec(FALSE, 1, 5000000)), PyNum(IntNum(TRUE, 2)), PyStr("map1")>>)

ThetaInputs ==
    {PyNum(Pi), PyNum(NegPi), PyNum(ThetaBound), PyNum(NegThetaBound),
     PyNum(AboveThetaBound), PyNum(BelowNegThetaBound), PyNum(FloatZero),
     PyNum(IntNum(FALSE, 4)), PyNum(IntNum(TRUE, 4)), PyNum(IntNum(FALSE, 3)),
     PyNum(PosInf), PyStr("north"), PyNone}

DeviationInputs ==
    {PyNum(FloatZero), PyNum(Zero), PyNum(TinyNegative), PyNum(Dec(TRUE, 0, 5000000)),
     PyNum(Dec(FALSE, 0, 5000000)), PyNum(IntNum(FALSE, 7)), PyNum(PosInf), PyNone}

NodePositionInputs ==
    Variants(BaseNodePosition, "theta", ThetaInputs)
        \cup Variants(BaseNodePosition, "allowedDeviationXY", DeviationInputs)
        \cup Variants(BaseNodePosition, "allowedDeviationTheta",
                      {PyNum(DevThetaBound), PyNum(Flt(FALSE, ThetaBoundInt, ThetaBoundHi, DevThetaBoundLo + 1)),
                       PyNum(TinyNegative), PyNum(Pi)})
        \cup Variants(BaseNodePosition, "x", {PyNum(PosInf), PyStr("left")})
        \cup Variants(BaseNodePosition, "mapId", {PyStr("")})
        \cup {With(With(BaseNodePosition, "theta", t), "allowedDeviationXY", a) :
                 t \in {PyNum(Pi), PyNum(AboveThetaBound)},
                 a \in {PyNum(FloatZero), PyNum(TinyNegative)}}

BaseControlPoint ==
    PyDict(<<"x", "y">>, <<PyNum(Dec(FALSE, 1, 0)), PyNum(Dec(FALSE, 2, 0))>>)

WeightInputs ==
    {PyNum(FloatZero), PyNum(Dec(FALSE, 1, 0)), PyNum(Dec(FALSE, 2, 5000000)),
     PyNum(IntNum(FALSE, 2)), PyNum(TinyNegative), PyNum(Dec(TRUE, 0, 5000000)), PyNone}

ControlPointInputs ==
    Variants(BaseControlPoint, "weight", WeightInputs)
        \cup Variants(BaseControlPoint, "y", {PyStr("two")})

PointInputs ==
    {BaseControlPoint,
     With(BaseControlPoint, "weight", PyNum(Dec(FALSE, 2, 5000000))),
     With(BaseControlPoint, "weight", PyNum(TinyNegative))}

BaseTrajectory ==
    PyDict(<<"degree", "knotVector", "controlPoints">>,
           <<PyNum(IntNum(FALSE, 1)),
             PyList(<<PyNum(FloatZero), PyNum(IntNum(FALSE, 1))>>),
             PyList(<<BaseControlPoint>>)>>)

TrajectoryInputs ==
    Variants(BaseTrajectory, "degree",
             {PyNum(Zero), PyNum(IntNum(FALSE, 3)), PyNum(Dec(FALSE, 2, 0)),
              PyNum(Dec(FALSE, 1, 5000000))})
        \cup Variants(BaseTrajectory, "knotVector",
                      {PyList(<<>>), PyList(<<PyStr("a")>>), PyNum(Zero)})
        \cup Variants(BaseTrajectory, "controlPoints",
                      {PyList(q) : q \in SeqsUpTo(PointInputs, MaxPoints)})

BaseCorridor ==
    PyDict(<<"leftWidth", "rightWidth">>, <<PyNum(FloatZero), PyNum(Dec(FALSE, 1, 0))>>)

CorridorInputs ==
    Variants(BaseCorridor, "leftWidth", {PyNum(Dec(FALSE, 0, 5000000)), PyNum(TinyNegative)})
        \cup Variants(BaseCorridor, "corridorRefPoint",
                      {PyStr("CONTOUR"), PyStr("contour"),
                       PyEnum("common.CorridorRefPoint", "KINEMATICCENTER")})

\* the keyword arguments tried on the constructor of cls
Kwargs(cls) ==
    CASE cls = "common.ActionParameter" -> ActionParameterInputs
      [] cls = "common.Action" -> ActionInputs
      [] cls = "common.NodePosition" -> NodePositionInputs
      [] cls = "common.ControlPoint" -> ControlPointInputs
      [] cls = "common.Trajectory" -> TrajectoryInputs
      [] cls = "common.Corridor" -> CorridorInputs
      [] cls = "caller.Action" -> {BaseAction, Without(BaseAction, "actionId")}
      [] OTHER -> {}

\* a BaseModel subclass a caller defines, also called Action, and one of the
\* repository that validate.py does not register
CallerClasses == {"caller.Action"}
UnregisteredInstances == {PyModel("visualization.Visualization", <<>>, <<>>)}

EnumValueInputs == {"NONE", "SOFT", "HARD", "KINEMATICCENTER", "CONTOUR", "hard"}

NameInputs ==
    DOMAIN MODEL_TYPE_MAP \cup {"NotAType", "action", "ACTION", "", "Visualization", "AgvFactsheet"}

\* what a caller may hand to create_message as data
DataInputs ==
    {BaseAction, Without(BaseAction, "actionId"), BaseNodePosition,
     PyDict(<<>>, <<>>), PyDict(<<"k">>, <<PyNum(IntNum(FALSE, 1))>>),
     With(BaseAction, "blockingType", PyEnum("common.BlockingType", "HARD"))}

\* texts that arrive from a transport
MessageTypeInputs ==
    {NoVal, PyNone, PyStr(""), PyStr("Action"), PyStr("NodePosition"),
     PyStr("BlockingType"), PyStr("CorridorRefPoint"), PyStr("NotAType"),
     PyStr("action"), PyNum(IntNum(FALSE, 5)), PyNum(Zero), PyBool(FALSE),
     PyList(<<PyStr("Action")>>), PyList(<<>>)}

PayloadInputs ==
    {NoVal, PyNone, PyDict(<<>>, <<>>), PyList(<<>>), PyStr(""), PyStr("HARD"),
     PyNum(Zero), PyBool(FALSE), PyList(<<BaseAction>>),
     BaseAction, Without(BaseAction, "blockingType"), BaseNodePosition,
     With(BaseNodePosition, "theta", PyNum(AboveThetaBound))}

MakeEnvelope(mt, data) ==
    LET a == IF mt.tag = "none" THEN PyDict(<<>>, <<>>) ELSE PyDict(<<"message_type">>, <<mt>>)
    IN  IF data.tag = "none" THEN a ELSE With(a, "data", data)

TextInputs ==
    {Text(TRUE, MakeEnvelope(mt, data)) : mt \in MessageTypeInputs, data \in PayloadInputs}
        \cup {Text(TRUE, With(MakeEnvelope(PyStr("Action"), BaseAction), "extra", PyNum(Zero))),
              Text(TRUE, PyList(<<PyStr("message_type")>>)),
              Text(TRUE, PyStr("Action")),
              Text(FALSE, PyStr("{"))}

---------------------------------------------------------------------------
(* The calls.  The library keeps no state of its own: the state is what a  *)
(* caller holds between calls, the entity it has, the text on the wire,    *)
(* the entity that text was encoded from and the outcome of the last call. *)

\* BaseModel subclasses of other modules: their fields are not in common.py
ExternalModels == RegisteredClasses \ (CommonModels \cup EnumClasses)

\* the class an envelope's message_type resolves to
Resolved(text) ==
    LET mt == DictGet(text.doc, "message_type")
    IN  IF text.wf /\ mt.tag = "str" THEN MapGet(mt.s) ELSE NoClass

Init ==
    /\ entity = NoVal
    /\ wire = NoText
    /\ sent = NoVal
    /\ result = NoOutcome

\* cls(**kwargs)
Construct(cls, kwargs) ==
    LET made == ValidateModel(cls, kwargs)
    IN  /\ entity' = made.val
        /\ wire' = NoText
        /\ sent' = NoVal
        /\ result' = Outcome("construct", made.ok,
                             IF made.ok THEN "" ELSE "FieldValidationError",
                             "validate", made.val, NoText, ClassName(cls), cls, kwargs)

\* cls(value) of an Enum class
ConstructEnum(cls, value) ==
    LET ok == value \in EnumValues(cls)
        made == IF ok THEN PyEnum(cls, value) ELSE NoVal
    IN  /\ entity' = made
        /\ wire' = NoText
        /\ sent' = NoVal
        /\ result' = Outcome("construct", ok, IF ok THEN "" ELSE "ValueError",
                             "validate", made, NoText, ClassName(cls), cls, PyStr(value))

\* the caller comes with an instance of a class validate.py does not import
Obtain(e) ==
    /\ entity' = e
    /\ wire' = NoText
    /\ sent' = NoVal
    /\ result' = Outcome("construct", TRUE, "", "validate", e, NoText,
                         ClassName(e.cls), e.cls, NoVal)

\* from_model(entity)
FromModel ==
    /\ entity # NoVal
    /\ LET r == from_model(entity)
       IN  /\ result' = r
           /\ wire' = r.text
           /\ sent' = IF r.ok THEN entity ELSE NoVal
    /\ UNCHANGED entity

\* to_model(wire)
ToModel ==
    /\ wire # NoText
    /\ Resolved(wire) \notin ExternalModels
    /\ LET r == to_model(wire)
       IN  /\ result' = r
           /\ entity' = r.val
    /\ UNCHANGED <<wire, sent>>

\* create_message(message_type, data)
CreateMessage(message_type, data) ==
    LET r == create_message(message_type, data)
    IN  /\ result' = r
        /\ wire' = r.text
        /\ entity' = NoVal
        /\ sent' = NoVal

\* a text arrives that this library did not write
Receive(text) ==
    /\ wire' = text
    /\ entity' = NoVal
    /\ sent' = NoVal
    /\ result' = NoOutcome

\* get_model_class(message_type)
GetModelClass(message_type) ==
    LET c == get_model_class(message_type)
    IN  /\ result' = Outcome("get_model_class", TRUE, "", "lookup", NoVal, NoText,
                             message_type, c, NoVal)
        /\ entity' = NoVal
        /\ wire' = NoText
        /\ sent' = NoVal

Next ==
    \/ \E cls \in CommonModels \cup CallerClasses : \E kwargs \in Kwargs(cls) :
          Construct(cls, kwargs)
    \/ \E cls \in EnumClasses : \E value \in EnumValueInputs : ConstructEnum(cls, value)
    \/ \E e \in UnregisteredInstances : Obtain(e)
    \/ FromModel
    \/ ToModel
    \/ \E name \in NameInputs : \E data \in DataInputs : CreateMessage(name, data)
    \/ \E text \in TextInputs : Receive(text)
    \/ \E name \in NameInputs : GetModelClass(name)

Spec == Init /\ [][Next]_vars

---------------------------------------------------------------------------
(* Properties *)

RegistryNames == {ClassName(c) : c \in RegisteredClasses}

\* the envelope a text denotes
MessageTypeOf(text) == DictGet(text.doc, "message_type")
DataOf(text) == DictGet(text.doc, "data")
IsEnvelopeObject(text) == text.wf /\ text.doc.tag = "obj"

\* absent, null or an empty string, array or object
AbsentOrEmpty(d, key) ==
    \/ ~HasKey(d, key)
    \/ DictGet(d, key) \in {PyNone, PyStr(""), PyList(<<>>), PyDict(<<>>, <<>>)}

\* present and none of null, false, 0, "", [] and {}
NonEmpty(d, key) ==
    /\ HasKey(d, key)
    /\ LET v == DictGet(d, key)
       IN  /\ v \notin {PyNone, PyStr(""), PyList(<<>>), PyDict(<<>>, <<>>), PyBool(FALSE)}
           /\ v.tag = "num" => ~NumEq(v.n, Zero)

RECURSIVE JsonValue(_)

\* a JSON value: null, boolean, finite number, string, array or object of such
JsonValue(v) ==
    CASE v.tag \in {"null", "bool", "str"} -> TRUE
      [] v.tag = "num" -> ~IsInf(v.n)
      [] v.tag \in {"arr", "obj"} -> \A i \in 1..Len(v.items) : JsonValue(v.items[i])
      [] OTHER -> FALSE

\* field of a materialized entity
FieldOf(e, name) == DictGet(e, name)

\* C1: for every registered type T and every valid entity e of type T,
\* from_model(e) succeeds and to_model of its text succeeds and gives back the
\* registry name of e and an entity equal to e field for field.
C1_RoundTrip ==
    /\ (result.op = "from_model" /\ result.arg.cls \in RegisteredClasses) =>
           /\ result.ok
           /\ LET back == to_model(result.text)
              IN  /\ back.ok
                  /\ back.name = ClassName(result.arg.cls)
                  /\ back.val = result.arg
    /\ (result.op = "to_model" /\ sent # NoVal) =>
           /\ result.ok
           /\ result.name = ClassName(sent.cls)
           /\ entity = sent

\* C2 as claimed: to_model of every envelope that has both keys, whose
\* message_type is a (non-empty) string that is no key of the registry and
\* whose data is an object fails with UnsupportedMessageType and returns no
\* entity; {"message_type":"NotAType","data":{}} is such an envelope.
C2_UnknownType ==
    (/\ result.op = "to_model"
     /\ IsEnvelopeObject(wire)
     /\ HasKey(wire.doc, "message_type") /\ HasKey(wire.doc, "data")
     /\ MessageTypeOf(wire).tag = "str"
     /\ MessageTypeOf(wire).s # ""
     /\ MessageTypeOf(wire).s \notin RegistryNames
     /\ DataOf(wire).tag = "obj") =>
        /\ ~result.ok
        /\ result.err = "UnsupportedMessageType"
        /\ entity = NoVal

\* C2 amended: to_model of an envelope whose message_type is a non-empty
\* string that is no key of the registry and whose data is present and not
\* empty fails with UnsupportedMessageType and returns no entity; with data
\* {} (as in {"message_type":"NotAType","data":{}}) it fails with
\* MissingEnvelopeField.
C2_UnknownTypeNonEmptyData ==
    /\ (/\ result.op = "to_model"
        /\ IsEnvelopeObject(wire)
        /\ MessageTypeOf(wire).tag = "str"
        /\ MessageTypeOf(wire).s # ""
        /\ MessageTypeOf(wire).s \notin RegistryNames
        /\ NonEmpty(wire.doc, "data")) =>
           /\ ~result.ok
           /\ result.err = "UnsupportedMessageType"
           /\ result.val = NoVal /\ entity = NoVal
    /\ (/\ result.op = "to_model"
        /\ wire = Text(TRUE, Envelope(PyStr("NotAType"), PyDict(<<>>, <<>>)))) =>
           /\ ~result.ok
           /\ result.err = "MissingEnvelopeField"
           /\ entity = NoVal

C2_Witness ==
    /\ result.op = "to_model"
    /\ MessageTypeOf(wire) = PyStr("NotAType")
    /\ DataOf(wire) = BaseAction
    /\ result.err = "UnsupportedMessageType"

\* C3: to_model of a JSON object in which message_type or data is absent or
\* empty fails with MissingEnvelopeField, at the envelope check (before the
\* registry lookup and the payload validation), and returns no entity.
C3_MissingEnvelopeField ==
    (/\ result.op = "to_model"
     /\ IsEnvelopeObject(wire)
     /\ AbsentOrEmpty(wire.doc, "message_type") \/ AbsentOrEmpty(wire.doc, "data")) =>
        /\ ~result.ok
        /\ result.err = "MissingEnvelopeField"
        /\ result.step = "envelope"
        /\ result.val = NoVal /\ entity = NoVal

\* data is empty and the message type is unknown as well: the envelope check
\* is the one that fails
C3_Witness ==
    /\ result.op = "to_model"
    /\ wire = Text(TRUE, Envelope(PyStr("NotAType"), PyDict(<<>>, <<>>)))
    /\ result.err = "MissingEnvelopeField"

\* C4: from_model succeeds exactly for the entities whose runtime type is a
\* type of the registry; the envelope then names the entity's registry name,
\* which looks up the entity's own type, and carries its serialization; for
\* every other entity it fails with UnsupportedMessageType and gives no text.
C4_EncodeExactlyRegistered ==
    result.op = "from_model" =>
        /\ result.ok <=> result.arg.cls \in RegisteredClasses
        /\ result.ok =>
              /\ MessageTypeOf(result.text) = PyStr(ClassName(result.arg.cls))
              /\ MapGet(MessageTypeOf(result.text).s) = result.arg.cls
              /\ DataOf(result.text) = ToJsonable(result.arg)
        /\ ~result.ok =>
              /\ result.err = "UnsupportedMessageType"
              /\ result.text = NoText

\* C5: create_message(typeName, data) of a structured value data succeeds iff
\* typeName is a key of the registry, whether or not data validates; on
\* success the envelope is {message_type: typeName, data: data}, data
\* unchanged; on failure the error is UnsupportedMessageType and there is no
\* text.
C5_CreateMessage ==
    (result.op = "create_message" /\ JsonValue(result.arg)) =>
        /\ result.ok <=> result.name \in RegistryNames
        /\ result.ok =>
              /\ wire = result.text
              /\ IsEnvelopeObject(wire)
              /\ wire.doc.keys = <<"message_type", "data">>
              /\ MessageTypeOf(wire) = PyStr(result.name)
              /\ DataOf(wire) = result.arg
        /\ ~result.ok =>
              /\ result.err = "UnsupportedMessageType"
              /\ wire = NoText

\* data that does not validate against the named type is wrapped all the same
C5_Witness ==
    /\ result.op = "create_message"
    /\ result.ok
    /\ result.name = "Action"
    /\ ~ValidateModel("common.Action", result.arg).ok
    /\ DataOf(wire) = result.arg

\* C6 as claimed: get_model_class fails with UnsupportedMessageType for
\* every name that is not registered.
C6_LookupFails ==
    (result.op = "get_model_class" /\ result.name \notin RegistryNames) =>
        ~result.ok /\ result.err = "UnsupportedMessageType"

\* C6 amended: get_model_class(name) returns the registered class when name
\* is a key of the registry (case-sensitive exact match) and returns None,
\* without raising, for every name that is not.
C6_LookupOrNone ==
    result.op = "get_model_class" =>
        /\ result.ok
        /\ result.name \in RegistryNames =>
              /\ result.cls \in RegisteredClasses
              /\ ClassName(result.cls) = result.name
        /\ result.name \notin RegistryNames => result.cls = NoClass

C6_Witness ==
    /\ result.op = "get_model_class"
    /\ result.name = "action"
    /\ result.cls = NoClass

\* the instances of a class of common.py that its constructor makes
InstancesOf(cls) ==
    IF cls \in EnumClasses
    THEN {PyEnum(cls, v) : v \in EnumValues(cls)}
    ELSE {ValidateModel(cls, k).val : k \in {x \in Kwargs(cls) : ValidateModel(cls, x).ok}}

PayloadsFor(cls) ==
    IF cls \in EnumClasses
    THEN {PyStr(v) : v \in EnumValues(cls)} \cup {PyDict(<<"value">>, <<PyStr(v)>>) : v \in EnumValues(cls)}
    ELSE Kwargs(cls)

\* C7: the descriptor the registry holds for a name can serialize and can
\* construct its type: some value of the type is encoded under that name and
\* some payload is decoded under that name to a value of the type.
C7_EveryEntryUsable ==
    (result.op = "get_model_class" /\ result.cls \in CommonModels \cup EnumClasses) =>
        /\ \E v \in InstancesOf(result.cls) :
              from_model(v).ok /\ from_model(v).name = result.name
        /\ \E d \in PayloadsFor(result.cls) :
              LET r == to_model(Text(TRUE, Envelope(PyStr(result.name), d)))
              IN  r.ok /\ r.val.cls = result.cls

RECURSIVE SameContent(_, _)

\* same shape and same content; numbers compare as Python's == does
SameContent(v, w) ==
    /\ v.tag = w.tag
    /\ CASE v.tag = "num" -> NumEq(v.n, w.n)
         [] v.tag \in {"arr", "obj"} ->
               /\ v.keys = w.keys
               /\ Len(v.items) = Len(w.items)
               /\ \A i \in 1..Len(v.items) : SameContent(v.items[i], w.items[i])
         [] OTHER -> v = w

FiveShapes == {"bool", "num", "str", "arr", "obj"}

\* C8: ActionParameter(key, value=v) succeeds for v a boolean, number,
\* string, array or object; the stored value and its serialization have the
\* shape and the content of v.
C8_UnionMatch ==
    (/\ result.op = "construct"
     /\ result.cls = "common.ActionParameter"
     /\ FieldOf(result.arg, "key").tag = "str"
     /\ HasKey(result.arg, "value")
     /\ FieldOf(result.arg, "value").tag \in FiveShapes
     /\ JsonValue(FieldOf(result.arg, "value"))) =>
        /\ result.ok
        /\ SameContent(FieldOf(result.arg, "value"), FieldOf(entity, "value"))
        /\ SameContent(FieldOf(result.arg, "value"),
                       FieldOf(DataOf(from_model(entity).text), "value"))
        /\ LET back == to_model(from_model(entity).text)
           IN  back.ok /\ back.val = entity

\* the int 1 is stored as a number, not as the boolean true
C8_Witness ==
    /\ result.op = "construct"
    /\ result.cls = "common.ActionParameter"
    /\ FieldOf(result.arg, "value") = PyNum(IntNum(FALSE, 1))
    /\ result.ok
    /\ FieldOf(entity, "value").tag = "num"

\* NodePosition arguments in which everything but theta and
\* allowedDeviationXY is valid, and these two are numbers or absent
NodePositionCandidate(kw) ==
    /\ ValidateModel("common.NodePosition",
                     Without(Without(kw, "theta"), "allowedDeviationXY")).ok
    /\ HasKey(kw, "theta") => FieldOf(kw, "theta").tag = "num"
    /\ HasKey(kw, "allowedDeviationXY") => FieldOf(kw, "allowedDeviationXY").tag = "num"

Within(n, lo, hi) == ~NumLT(n, lo) /\ ~NumLT(hi, n)

\* C9 as claimed: a NodePosition is accepted iff theta is in [-pi, pi] and
\* allowedDeviationXY >= 0.
C9_ThetaWithinPi ==
    (/\ result.op = "construct"
     /\ result.cls = "common.NodePosition"
     /\ NodePositionCandidate(result.arg)) =>
        (result.ok <=>
            /\ HasKey(result.arg, "theta") => Within(FieldOf(result.arg, "theta").n, NegPi, Pi)
            /\ HasKey(result.arg, "allowedDeviationXY") =>
                  ~NumLT(FieldOf(result.arg, "allowedDeviationXY").n, Zero))

\* C9 amended: a NodePosition is accepted iff theta is in
\* [-3.14159265359, 3.14159265359] and allowedDeviationXY >= 0; theta = pi,
\* theta = -pi and allowedDeviationXY = 0 are accepted.
C9_ThetaWithinDeclaredBound ==
    (/\ result.op = "construct"
     /\ result.cls = "common.NodePosition"
     /\ NodePositionCandidate(result.arg)) =>
        /\ result.ok <=>
              /\ HasKey(result.arg, "theta") =>
                    Within(FieldOf(result.arg, "theta").n,
                           Flt(TRUE, 3, 1415926, 53590000), Flt(FALSE, 3, 1415926, 53590000))
              /\ HasKey(result.arg, "allowedDeviationXY") =>
                    ~NumLT(FieldOf(result.arg, "allowedDeviationXY").n, Zero)
        /\ (/\ FieldOf(result.arg, "theta") \in {PyNum(Pi), PyNum(NegPi), PyNone}
            /\ FieldOf(result.arg, "allowedDeviationXY") \in {PyNum(FloatZero), PyNone}) =>
              /\ result.ok
              /\ FieldOf(entity, "theta") = FieldOf(result.arg, "theta")
              /\ FieldOf(entity, "allowedDeviationXY") = FieldOf(result.arg, "allowedDeviationXY")

C9_Witness ==
    /\ result.op = "construct"
    /\ result.cls = "common.NodePosition"
    /\ FieldOf(result.arg, "theta") = PyNum(Pi)
    /\ FieldOf(result.arg, "allowedDeviationXY") = PyNum(FloatZero)
    /\ result.ok
    /\ FieldOf(entity, "theta") = PyNum(Pi)

\* the data a ControlPoint was made from: constructor arguments or payload
MadeFrom == IF result.op = "construct" THEN result.arg ELSE DataOf(wire)

\* C10: a ControlPoint made from data without weight has weight 1.0; a
\* weight >= 0 is kept; a weight < 0 is rejected.
C10_WeightDefault ==
    (/\ result.op \in {"construct", "to_model"}
     /\ result.cls = "common.ControlPoint"
     /\ result.ok) =>
        /\ ~HasKey(MadeFrom, "weight") =>
              FieldOf(entity, "weight") = PyNum(Flt(FALSE, 1, 0, 0))
        /\ (HasKey(MadeFrom, "weight") /\ FieldOf(MadeFrom, "weight").tag = "num") =>
              /\ ~NumLT(FieldOf(MadeFrom, "weight").n, Zero)
              /\ SameContent(FieldOf(MadeFrom, "weight"), FieldOf(entity, "weight"))

===========================================================================
